---- MODULE Spec2Model ----
(***************************************************************************)
(* Carbon footprint calculator: the CarbonActivity entity, the             *)
(* CarbonActivityService orchestrating it, and the CarbonActivityRepository *)
(* persisting it.                                                           *)
(*                                                                          *)
(* Numbers are integers: a factor, a value and an emission are counted in   *)
(* a fixed small unit, so that value * factor and the sums of emissions     *)
(* are exact (JavaScript computes them exactly as well for integers below   *)
(* 2^53).  JavaScript values are tagged records, so that truthiness, typeof *)
(* and the coercions of + - * are what the language does.                   *)
(***************************************************************************)
EXTENDS Integers, Sequences, FiniteSets, TLC

VARIABLES
    act,          \* the CarbonActivity instance a method is running on
    ret,          \* outcome of the last entity method called directly
    pc,           \* position of the service call in flight
    activityData, \* argument of createActivity
    query,        \* arguments of getUserFootprint
    emissionFactors, \* the factor table createActivity fetched
    calls,        \* collaborator and entity calls of the call in flight, in order
    db,           \* the CarbonActivityModel collection
    saved,        \* savedActivity of createActivity
    summary,      \* what getUserFootprint returned
    thrown,       \* messages of the errors the service call raised to its caller
    inner,        \* message of the error the service's catch block received
    audit,        \* console.log lines of createActivity
    found,        \* the activities findByUserAndDateRange returned
    averageEmissions \* the averages passed to compareToAverage

vars == <<act, ret, pc, activityData, query, emissionFactors, calls, db, saved,
          summary, thrown, inner, audit, found, averageEmissions>>

----------------------------------------------------------------------------
(* Bounds of the model *)

MaxValue == 2
MaxFactor == 2
MaxAvg == 3
MaxDate == 2
MaxDb == 2
MaxFound == 2
MaxEmission == 2

----------------------------------------------------------------------------
(* JavaScript values *)

Undef == [k |-> "undefined", n |-> 0, s |-> ""]
Null == [k |-> "null", n |-> 0, s |-> ""]
NaN == [k |-> "NaN", n |-> 0, s |-> ""]
Num(i) == [k |-> "number", n |-> i, s |-> ""]
Str(x) == [k |-> "string", n |-> 0, s |-> x]
Bool(b) == [k |-> "boolean", n |-> IF b THEN 1 ELSE 0, s |-> ""]
DateV(d) == [k |-> "Date", n |-> d, s |-> ""]
InvalidDate == [k |-> "Date", n |-> 0, s |-> "Invalid Date"]

Truthy(v) ==
    CASE v.k = "undefined" -> FALSE
      [] v.k = "null" -> FALSE
      [] v.k = "NaN" -> FALSE
      [] v.k = "number" -> v.n # 0
      [] v.k = "string" -> v.s # ""
      [] v.k = "boolean" -> v.n = 1
      [] OTHER -> TRUE

TypeOf(v) ==
    CASE v.k = "NaN" -> "number"
      [] v.k = "null" -> "object"
      [] v.k = "Date" -> "object"
      [] OTHER -> v.k

\* a && b
And(a, b) == IF Truthy(a) THEN b ELSE a

\* ToNumber, on the values the model uses (its only strings are "" and
\* strings that are not numerals)
ToNumber(v) ==
    CASE v.k = "number" -> v
      [] v.k = "null" -> Num(0)
      [] v.k = "boolean" -> Num(v.n)
      [] v.k = "string" /\ v.s = "" -> Num(0)
      [] OTHER -> NaN

NumAdd(a, b) ==
    LET x == ToNumber(a)
        y == ToNumber(b)
    IN  IF x.k = "number" /\ y.k = "number" THEN Num(x.n + y.n) ELSE NaN

NumSub(a, b) ==
    LET x == ToNumber(a)
        y == ToNumber(b)
    IN  IF x.k = "number" /\ y.k = "number" THEN Num(x.n - y.n) ELSE NaN

NumMul(a, b) ==
    LET x == ToNumber(a)
        y == ToNumber(b)
    IN  IF x.k = "number" /\ y.k = "number" THEN Num(x.n * y.n) ELSE NaN

\* a < b on numbers
NumLess(a, b) ==
    LET x == ToNumber(a)
        y == ToNumber(b)
    IN  x.k = "number" /\ y.k = "number" /\ x.n < y.n

\* `${v}`
Template(v) ==
    CASE v.k = "string" -> v.s
      [] v.k = "number" -> ToString(v.n)
      [] v.k = "boolean" -> IF v.n = 1 THEN "true" ELSE "false"
      [] OTHER -> v.k

\* (difference / avg) * 100, kept as the fraction it is; a division by zero
\* gives Infinity, -Infinity or NaN
PercentageDiff(difference, avg) ==
    LET x == ToNumber(difference)
        y == ToNumber(avg)
    IN  IF x.k # "number" \/ y.k # "number"
        THEN [k |-> "NaN", num |-> 0, den |-> 0]
        ELSE IF y.n = 0
        THEN IF x.n = 0 THEN [k |-> "NaN", num |-> 0, den |-> 0]
             ELSE IF x.n > 0 THEN [k |-> "Infinity", num |-> 0, den |-> 0]
             ELSE [k |-> "-Infinity", num |-> 0, den |-> 0]
        ELSE [k |-> "number", num |-> x.n * 100, den |-> y.n]

----------------------------------------------------------------------------
(* Inputs *)

validTypes == {"transportation", "energy", "food", "consumption"}
TypeNames == validTypes \cup {"unknown-type"}
UnitNames == {"km", "kwh"}
UserIds == {"", "user123"}
Users == {"user123", "user456"}
RegTypes == {"transportation", "energy"}

Values == {Num(i) : i \in -1..MaxValue} \cup {Str("ten"), NaN}
Dates == {DateV(d) : d \in 1..MaxDate}
DateInputs == Dates \cup {InvalidDate, Str("2023-01-01")}
FactorVals == {Undef} \cup {Num(i) : i \in {0, MaxFactor}}
AvgVals == {Undef, Num(0), Num(MaxAvg)}

\* emissionFactors: type -> unit -> multiplier; a missing key reads undefined
NoRow == [present |-> FALSE, u |-> [x \in UnitNames |-> Undef]]
FactorTables ==
    { [nul |-> FALSE,
       f |-> [t \in TypeNames |->
                IF t \in RegTypes THEN [present |-> TRUE, u |-> row] ELSE NoRow]] :
        row \in [UnitNames -> FactorVals] }
NullTable == [nul |-> TRUE, f |-> [t \in TypeNames |-> NoRow]]

\* averageEmissions: type -> average, and total
AvgTables ==
    { [nul |-> FALSE,
       avg |-> [t \in TypeNames |-> IF t \in RegTypes THEN a ELSE Undef],
       total |-> tot] :
        a \in AvgVals \ {Undef}, tot \in AvgVals }
EntityAvgTables == { t \in AvgTables : t.total = Undef }
NullAvg == [nul |-> TRUE, avg |-> [t \in TypeNames |-> Undef], total |-> Undef]

----------------------------------------------------------------------------
(* CarbonActivity *)

\* new CarbonActivity(id, userId, type, value, unit, date, ...): a seventh
\* argument is not a parameter of the constructor and is dropped
CarbonActivity(id, userId, type, value, unit, date) ==
    [id |-> id, userId |-> userId, type |-> type, value |-> value,
     unit |-> unit, date |-> date, carbonEmission |-> Null]

NoActivity == CarbonActivity(Undef, Undef, Undef, Undef, Undef, Undef)

\* emissionFactors[this.type]
FactorRow(table, type) ==
    IF ~table.nul /\ type.k = "string" /\ type.s \in DOMAIN table.f
    THEN table.f[type.s]
    ELSE NoRow

\* emissionFactors[this.type][this.unit]
FactorOf(table, type, unit) ==
    LET row == FactorRow(table, type)
    IN  IF unit.k = "string" /\ unit.s \in DOMAIN row.u THEN row.u[unit.s] ELSE Undef

NoMsg == <<>>
OkRet(op, v) == [op |-> op, ok |-> TRUE, val |-> v, msg |-> NoMsg,
                 cmp |-> [difference |-> Undef,
                          percentageDiff |-> PercentageDiff(Undef, Undef),
                          isBetterThanAverage |-> FALSE]]
ThrowRet(op, m) == [OkRet(op, Undef) EXCEPT !.ok = FALSE, !.msg = m]
NoRet == OkRet("none", Undef)

FactorMissing(a, table) ==
    table.nul \/ ~FactorRow(table, a.type).present

UnitFactorMissing(a, table) ==
    ~Truthy(FactorOf(table, a.type, a.unit))

\* calculateEmission: the message it throws, NoMsg when it returns
calculateEmissionError(a, table) ==
    IF FactorMissing(a, table)
    THEN <<"Emission factor for ", Template(a.type), " not found">>
    ELSE IF UnitFactorMissing(a, table)
    THEN <<"Emission factor for ", Template(a.type), "/", Template(a.unit), " not found">>
    ELSE NoMsg

\* this.value * factor
EmissionOf(a, table) == NumMul(a.value, FactorOf(table, a.type, a.unit))

\* calculateEmission: the activity afterwards
calculateEmission(a, table) ==
    IF calculateEmissionError(a, table) # NoMsg
    THEN a
    ELSE [a EXCEPT !.carbonEmission = EmissionOf(a, table)]

\* averageEmissions[this.type]
AverageOf(avgs, type) ==
    IF ~avgs.nul /\ type.k = "string" /\ type.s \in DOMAIN avgs.avg
    THEN avgs.avg[type.s]
    ELSE Undef

CompareMissing(a, avgs) ==
    \/ ~Truthy(a.carbonEmission)
    \/ avgs.nul
    \/ ~Truthy(AverageOf(avgs, a.type))

Comparison(emission, avgEmission) ==
    LET difference == NumSub(emission, avgEmission)
    IN  [difference |-> difference,
         percentageDiff |-> PercentageDiff(difference, avgEmission),
         isBetterThanAverage |-> NumLess(difference, Num(0))]

compareToAverage(a, avgs) ==
    IF CompareMissing(a, avgs)
    THEN ThrowRet("compareToAverage", <<"Cannot compare: missing data">>)
    ELSE [OkRet("compareToAverage", Undef) EXCEPT
            !.cmp = Comparison(a.carbonEmission, AverageOf(avgs, a.type))]

DateCheck(a) == Bool(a.date.k = "Date")

isValid(a) ==
    And(a.userId,
    And(Bool(a.type.k = "string" /\ a.type.s \in validTypes),
    And(Bool(TypeOf(a.value) = "number"),
    And(Bool(NumLess(Num(0), a.value)),
    And(a.unit,
        DateCheck(a))))))

NoSummary ==
    [ok |-> FALSE, userId |-> Undef,
     period |-> [startDate |-> Undef, endDate |-> Undef],
     totalEmission |-> Num(0),
     byCategory |-> [t \in validTypes |-> Num(0)],
     comparison |-> Comparison(Undef, Undef)]

----------------------------------------------------------------------------
(* CarbonActivityRepository over the CarbonActivityModel collection *)

\* _id the database gives the next document
NextId(collection) == Str(ToString(Len(collection) + 1))

\* new CarbonActivityModel({...}) followed by model.save()
ModelSave(collection, a) ==
    Append(collection,
           [id |-> NextId(collection), userId |-> a.userId, type |-> a.type,
            value |-> a.value, unit |-> a.unit, date |-> a.date,
            carbonEmission |-> a.carbonEmission])

\* save: the entity returned for the saved document
SavedEntity(savedModel) ==
    CarbonActivity(savedModel.id, savedModel.userId, savedModel.type,
                   savedModel.value, savedModel.unit, savedModel.date)

\* the query findByUserAndDateRange builds
Matches(m, userId, startDate, endDate) ==
    /\ m.userId = userId
    /\ (Truthy(startDate) \/ Truthy(endDate)) =>
          /\ Truthy(startDate) => m.date.n >= startDate.n
          /\ Truthy(endDate) => m.date.n <= endDate.n

RECURSIVE InsertByDate(_, _)
InsertByDate(sorted, m) ==
    IF sorted = <<>> THEN <<m>>
    ELSE IF Head(sorted).date.n >= m.date.n
    THEN <<Head(sorted)>> \o InsertByDate(Tail(sorted), m)
    ELSE <<m>> \o sorted

RECURSIVE SortByDateDesc(_)
SortByDateDesc(ms) ==
    IF ms = <<>> THEN <<>>
    ELSE InsertByDate(SortByDateDesc(SubSeq(ms, 1, Len(ms) - 1)), ms[Len(ms)])

\* CarbonActivityModel.find(query).sort({ date: -1 })
ModelFind(collection, userId, startDate, endDate) ==
    SortByDateDesc(SelectSeq(collection,
                             LAMBDA m : Matches(m, userId, startDate, endDate)))

findByUserAndDateRange(collection, userId, startDate, endDate) ==
    LET models == ModelFind(collection, userId, startDate, endDate)
    IN  [i \in 1..Len(models) |-> SavedEntity(models[i])]

----------------------------------------------------------------------------
(* CarbonActivityService *)

CollaboratorErrors == { <<"connection lost">> }

\* userRepository.exists(userId)
UserExists(userId) == userId.k = "string" /\ userId.s \in Users

ServiceData ==
    [userId : {Str(u) : u \in {"user123", "user456", "ghost"}},
     type : {Str(t) : t \in {"transportation", "energy", "food", "unknown-type"}},
     value : {Num(0), Num(MaxValue)},
     unit : {Str("km")},
     date : {Undef, DateV(1), Str("2023-01-01")}]

ServiceTables ==
    { t \in FactorTables : t.f["energy"].u["kwh"] = Undef } \cup {NullTable}

ServiceAvgTables ==
    { t \in AvgTables : t.avg["energy"] = Num(MaxAvg) } \cup {NullAvg}

Queries ==
    [userId : {Str(u) : u \in {"user123", "user456", "ghost"}},
     startDate : {Undef, DateV(MaxDate)},
     endDate : {Undef, DateV(1)}]

NoQuery == [userId |-> Undef, startDate |-> Undef, endDate |-> Undef]

\* a || b
Or(a, b) == IF Truthy(a) THEN a ELSE b

\* variant: the caught error's message is left out
CreationErrorWithoutMessage(message) == <<"Activity creation error: ">>

\* the catch block of createActivity
CreationError(message) == <<"Activity creation error: ">> \o message

CreateFails(message) ==
    /\ inner' = message
    /\ thrown' = Append(thrown, CreationError(message))
    /\ pc' = "createFailed"

\* createActivity up to its first await
CreateActivity ==
    /\ pc = "idle"
    /\ Len(db) < MaxDb
    /\ \E data \in ServiceData : activityData' = data
    /\ pc' = "awaitExists"
    /\ calls' = <<"exists">>
    /\ act' = NoActivity
    /\ saved' = NoActivity
    /\ summary' = NoSummary
    /\ query' = NoQuery
    /\ found' = <<>>
    /\ thrown' = <<>>
    /\ inner' = NoMsg
    /\ audit' = <<>>
    /\ emissionFactors' = NullTable
    /\ averageEmissions' = NullAvg
    /\ UNCHANGED <<ret, db>>

\* userRepository.exists rejects
ExistsThrows ==
    /\ pc = "awaitExists"
    /\ \E m \in CollaboratorErrors : CreateFails(m)
    /\ UNCHANGED <<act, ret, activityData, query, emissionFactors, calls, db,
                   saved, summary, audit, found, averageEmissions>>

\* variant: the answer of userRepository.exists is not looked at
ExistsReturnsUnchecked ==
    /\ pc = "awaitExists"
    /\ pc' = "awaitFactors"
    /\ calls' = Append(calls, "getEmissionFactors")
    /\ UNCHANGED <<act, ret, activityData, query, emissionFactors, db, saved,
                   summary, audit, found, averageEmissions, inner, thrown>>

\* userRepository.exists resolves; on true getEmissionFactors is called
ExistsReturns ==
    /\ pc = "awaitExists"
    /\ IF ~UserExists(activityData.userId)
       THEN /\ CreateFails(<<"User does not exist">>)
            /\ UNCHANGED calls
       ELSE /\ pc' = "awaitFactors"
            /\ calls' = Append(calls, "getEmissionFactors")
            /\ UNCHANGED <<inner, thrown>>
    /\ UNCHANGED <<act, ret, activityData, query, emissionFactors, db, saved,
                   summary, audit, found, averageEmissions>>

FactorsThrow ==
    /\ pc = "awaitFactors"
    /\ \E m \in CollaboratorErrors : CreateFails(m)
    /\ UNCHANGED <<act, ret, activityData, query, emissionFactors, calls, db,
                   saved, summary, audit, found, averageEmissions>>

\* the entity createActivity constructs
NewActivity(data, now) ==
    CarbonActivity(Null, data.userId, data.type, data.value, data.unit,
                   Or(data.date, now))

\* getEmissionFactors resolves: the entity is built, validated, its emission
\* calculated, and save is called
FactorsReturn ==
    /\ pc = "awaitFactors"
    /\ \E table \in ServiceTables, now \in Dates :
         LET activity == NewActivity(activityData, now)
         IN  /\ emissionFactors' = table
             /\ IF ~Truthy(isValid(activity))
                THEN /\ CreateFails(<<"Invalid activity data">>)
                     /\ calls' = Append(calls, "isValid")
                     /\ act' = activity
                ELSE IF calculateEmissionError(activity, table) # NoMsg
                THEN /\ CreateFails(calculateEmissionError(activity, table))
                     /\ calls' = calls \o <<"isValid", "calculateEmission">>
                     /\ act' = activity
                ELSE /\ act' = calculateEmission(activity, table)
                     /\ calls' = calls \o <<"isValid", "calculateEmission", "save">>
                     /\ pc' = "awaitSave"
                     /\ UNCHANGED <<inner, thrown>>
    /\ UNCHANGED <<ret, activityData, query, db, saved, summary, audit, found,
                   averageEmissions>>

\* model.save() rejects: save rethrows, createActivity catches
SaveThrows ==
    /\ pc = "awaitSave"
    /\ \E m \in CollaboratorErrors : CreateFails(<<"Activity save error: ">> \o m)
    /\ UNCHANGED <<act, ret, activityData, query, emissionFactors, calls, db,
                   saved, summary, audit, found, averageEmissions>>

AuditLine(savedActivity) ==
    <<"Activity created: ", Template(savedActivity.id), ", Emission: ",
      Template(savedActivity.carbonEmission), " kg CO2">>

\* model.save() resolves: save returns the entity, createActivity logs and
\* returns it
SaveReturns ==
    /\ pc = "awaitSave"
    /\ db' = ModelSave(db, act)
    /\ saved' = SavedEntity(db'[Len(db')])
    /\ audit' = Append(audit, AuditLine(saved'))
    /\ pc' = "created"
    /\ UNCHANGED <<act, ret, activityData, query, emissionFactors, calls,
                   summary, thrown, inner, found, averageEmissions>>

\* the catch block of getUserFootprint
FootprintError(message) == <<"Footprint calculation error: ">> \o message

FootprintFails(message) ==
    /\ inner' = message
    /\ thrown' = Append(thrown, FootprintError(message))
    /\ pc' = "footprintFailed"

\* getUserFootprint up to its first await
GetUserFootprint ==
    /\ pc = "idle"
    /\ \E q \in Queries : query' = q
    /\ pc' = "awaitFind"
    /\ calls' = <<"findByUserAndDateRange">>
    /\ act' = NoActivity
    /\ activityData' = NoActivity
    /\ saved' = NoActivity
    /\ summary' = NoSummary
    /\ found' = <<>>
    /\ thrown' = <<>>
    /\ inner' = NoMsg
    /\ audit' = <<>>
    /\ emissionFactors' = NullTable
    /\ averageEmissions' = NullAvg
    /\ UNCHANGED <<ret, db>>

\* CarbonActivityModel.find rejects: the repository rethrows
FindThrows ==
    /\ pc = "awaitFind"
    /\ \E m \in CollaboratorErrors :
         FootprintFails(<<"Activity query error: ">> \o m)
    /\ UNCHANGED <<act, ret, activityData, query, emissionFactors, calls, db,
                   saved, summary, audit, found, averageEmissions>>

\* the repository resolves; getAverageEmissions is called
FindReturns ==
    /\ pc = "awaitFind"
    /\ found' = findByUserAndDateRange(db, query.userId, query.startDate,
                                       query.endDate)
    /\ calls' = Append(calls, "getAverageEmissions")
    /\ pc' = "awaitAvg"
    /\ UNCHANGED <<act, ret, activityData, query, emissionFactors, db, saved,
                   summary, thrown, inner, audit, averageEmissions>>

\* variant: the category is overwritten with the emission, not added to
AddCategoryAssigns(byCategory, type, emission) ==
    Template(type) :> ToNumber(emission) @@ byCategory

\* byCategory[activity.type] += activity.carbonEmission
AddCategory(byCategory, type, emission) ==
    LET key == Template(type)
    IN  IF key \in DOMAIN byCategory
        THEN [byCategory EXCEPT ![key] = NumAdd(@, emission)]
        ELSE byCategory @@ (key :> NumAdd(Undef, emission))

\* the body of activities.forEach
AddActivity(acc, activity) ==
    [totalEmission |-> NumAdd(acc.totalEmission, activity.carbonEmission),
     byCategory |-> AddCategory(acc.byCategory, activity.type,
                                activity.carbonEmission)]

RECURSIVE Aggregate(_, _)
Aggregate(activities, acc) ==
    IF activities = <<>> THEN acc
    ELSE Aggregate(Tail(activities), AddActivity(acc, Head(activities)))

FootprintSummary(q, activities, avgs) ==
    LET agg == Aggregate(activities,
                         [totalEmission |-> Num(0),
                          byCategory |-> [t \in validTypes |-> Num(0)]])
        difference == NumSub(agg.totalEmission, avgs.total)
    IN  [ok |-> TRUE,
         userId |-> q.userId,
         period |-> [startDate |-> q.startDate, endDate |-> q.endDate],
         totalEmission |-> agg.totalEmission,
         byCategory |-> agg.byCategory,
         comparison |->
            [difference |-> difference,
             percentageDiff |-> PercentageDiff(difference, avgs.total),
             isBetterThanAverage |-> NumLess(agg.totalEmission, avgs.total)]]

AvgThrows ==
    /\ pc = "awaitAvg"
    /\ \E m \in CollaboratorErrors : FootprintFails(m)
    /\ UNCHANGED <<act, ret, activityData, query, emissionFactors, calls, db,
                   saved, summary, audit, found, averageEmissions>>

\* getAverageEmissions resolves: the summary is built and returned; reading
\* .total of null or undefined is a TypeError
AvgReturns ==
    /\ pc = "awaitAvg"
    /\ \E avgs \in ServiceAvgTables :
         /\ averageEmissions' = avgs
         /\ IF avgs.nul
            THEN /\ FootprintFails(<<"Cannot read properties of null (reading 'total')">>)
                 /\ UNCHANGED summary
            ELSE /\ summary' = FootprintSummary(query, found, avgs)
                 /\ pc' = "footprintDone"
                 /\ UNCHANGED <<inner, thrown>>
    /\ UNCHANGED <<act, ret, activityData, query, emissionFactors, calls, db,
                   saved, audit, found>>

\* the call has settled and its locals are gone
Return ==
    /\ pc \in {"created", "createFailed", "footprintDone", "footprintFailed"}
    /\ pc' = "idle"
    /\ act' = NoActivity
    /\ activityData' = NoActivity
    /\ query' = NoQuery
    /\ emissionFactors' = NullTable
    /\ averageEmissions' = NullAvg
    /\ calls' = <<>>
    /\ saved' = NoActivity
    /\ summary' = NoSummary
    /\ thrown' = <<>>
    /\ inner' = NoMsg
    /\ audit' = <<>>
    /\ found' = <<>>
    /\ UNCHANGED <<ret, db>>

Init ==
    /\ act = NoActivity
    /\ ret = NoRet
    /\ emissionFactors = NullTable
    /\ averageEmissions = NullAvg
    /\ summary = NoSummary
    /\ pc = "idle"
    /\ activityData = NoActivity
    /\ query = NoQuery
    /\ calls = <<>>
    /\ db = <<>>
    /\ saved = NoActivity
    /\ thrown = <<>>
    /\ inner = NoMsg
    /\ audit = <<>>
    /\ found = <<>>

Next ==
    \/ CreateActivity
    \/ ExistsThrows
    \/ ExistsReturns
    \/ FactorsThrow
    \/ FactorsReturn
    \/ SaveThrows
    \/ SaveReturns
    \/ GetUserFootprint
    \/ FindThrows
    \/ FindReturns
    \/ AvgThrows
    \/ AvgReturns
    \/ Return

Spec == Init /\ [][Next]_vars

----------------------------------------------------------------------------
(* getUserFootprint over any injected persistence collaborator *)

AnyActivities ==
    { [CarbonActivity(Str("7"), Str("user123"), Str(t), Num(1), Str("km"), DateV(1))
        EXCEPT !.carbonEmission = e] :
        t \in TypeNames, e \in {Null, Num(1), Num(MaxEmission)} }

AnyFound == UNION { [1..n -> AnyActivities] : n \in 0..MaxFound }

\* the injected findByUserAndDateRange resolves with some activities
FindReturnsAny ==
    /\ pc = "awaitFind"
    /\ \E activities \in AnyFound : found' = activities
    /\ calls' = Append(calls, "getAverageEmissions")
    /\ pc' = "awaitAvg"
    /\ UNCHANGED <<act, ret, activityData, query, emissionFactors, db, saved,
                   summary, thrown, inner, audit, averageEmissions>>

NextFootprint ==
    \/ GetUserFootprint
    \/ FindThrows
    \/ FindReturnsAny
    \/ AvgThrows
    \/ AvgReturns
    \/ Return

SpecFootprint == Init /\ [][NextFootprint]_vars

----------------------------------------------------------------------------
(* The entity's methods called directly, as the unit tests do *)

EntityInputs ==
    { CarbonActivity(Str("1"), Str(u), Str(t), v, Str(un), d) :
        u \in UserIds, t \in TypeNames, v \in Values,
        un \in UnitNames \cup {""}, d \in DateInputs }

ServiceIdle ==
    /\ pc = "idle"
    /\ activityData = NoActivity
    /\ query = NoQuery
    /\ calls = <<>>
    /\ db = <<>>
    /\ saved = NoActivity
    /\ thrown = <<>>
    /\ inner = NoMsg
    /\ audit = <<>>
    /\ found = <<>>

serviceVars == <<pc, activityData, query, calls, db, saved, summary, thrown,
                 inner, audit, found>>

InitEntity ==
    /\ act \in EntityInputs
    /\ ret = NoRet
    /\ emissionFactors = NullTable
    /\ averageEmissions = NullAvg
    /\ summary = NoSummary
    /\ ServiceIdle

CalculateEmission ==
    \E table \in FactorTables \cup {NullTable} :
        /\ emissionFactors' = table
        /\ act' = calculateEmission(act, table)
        /\ ret' = IF calculateEmissionError(act, table) # NoMsg
                  THEN ThrowRet("calculateEmission", calculateEmissionError(act, table))
                  ELSE OkRet("calculateEmission", EmissionOf(act, table))
        /\ UNCHANGED <<averageEmissions, serviceVars>>

CompareToAverage ==
    \E avgs \in EntityAvgTables \cup {NullAvg} :
        /\ averageEmissions' = avgs
        /\ ret' = compareToAverage(act, avgs)
        /\ UNCHANGED <<act, emissionFactors, serviceVars>>

IsValid ==
    /\ ret' = OkRet("isValid", isValid(act))
    /\ UNCHANGED <<act, emissionFactors, averageEmissions, serviceVars>>

NextEntity == CalculateEmission \/ CompareToAverage \/ IsValid

SpecEntity == InitEntity /\ [][NextEntity]_vars

----------------------------------------------------------------------------
(* Claims about the entity, checked under SpecEntity *)

\* The factor table has an entry for the activity's type and unit
HasFactorEntry(a, table) ==
    /\ ~FactorMissing(a, table)
    /\ FactorOf(table, a.type, a.unit).k = "number"

\* C1: with a positive value and a table that has a nonnegative entry (zero
\* included) for the activity's type and unit, calculateEmission succeeds,
\* sets carbonEmission and returns exactly value * emissionFactors[type][unit].
C1_EmissionIsValueTimesFactor ==
    (/\ ret.op = "calculateEmission"
     /\ act.value.k = "number" /\ act.value.n > 0
     /\ HasFactorEntry(act, emissionFactors)
     /\ FactorOf(emissionFactors, act.type, act.unit).n >= 0)
    => /\ ret.ok
       /\ ret.val = Num(act.value.n * FactorOf(emissionFactors, act.type, act.unit).n)
       /\ act.carbonEmission = ret.val

\* What the documentation of isValid asks of the fields
ValidData(a) ==
    /\ a.userId.k = "string" /\ a.userId.s # ""
    /\ a.type.k = "string" /\ a.type.s \in validTypes
    /\ a.value.k = "number" /\ a.value.n > 0
    /\ a.unit.k = "string" /\ a.unit.s # ""
    /\ a.date.k = "Date" /\ a.date # InvalidDate

\* C2: isValid() returns true if and only if userId is present, type is one
\* of the four types, value is a number > 0, unit is non-empty and date is a
\* valid timestamp.
C2_IsValidIffValidData ==
    ret.op = "isValid" => (ret.val = Bool(TRUE) <=> ValidData(act))

\* C3: compareToAverage fails exactly when carbonEmission is unset or the
\* averages have no entry for the activity's type; otherwise (a computed
\* emission of 0 and an average of 0 included) it returns difference =
\* carbonEmission - avg, percentageDiff = difference / avg * 100 and
\* isBetterThanAverage = (difference < 0).
C3_CompareFailsExactlyOnMissingData ==
    (/\ ret.op = "compareToAverage"
     /\ act.carbonEmission.k \in {"null", "number"}
     /\ act.carbonEmission.n >= 0) =>
        LET missing == \/ act.carbonEmission = Null
                       \/ AverageOf(averageEmissions, act.type) = Undef
        IN  /\ ~ret.ok <=> missing
            /\ ~missing =>
                 ret.cmp = Comparison(act.carbonEmission,
                                      AverageOf(averageEmissions, act.type))

\* C10: calculateEmission fails with a not-found error naming the type when
\* the table has no entry for the type, with one naming type and unit when
\* the type is registered and the unit has no entry, and raises no error in
\* any other case.
C10_NotFoundErrors ==
    ret.op = "calculateEmission" =>
        IF FactorMissing(act, emissionFactors)
        THEN /\ ~ret.ok
             /\ ret.msg = <<"Emission factor for ", act.type.s, " not found">>
        ELSE IF FactorOf(emissionFactors, act.type, act.unit) = Undef
        THEN /\ ~ret.ok
             /\ ret.msg = <<"Emission factor for ", act.type.s, "/", act.unit.s,
                            " not found">>
        ELSE ret.ok

----------------------------------------------------------------------------
(* Claims about createActivity, checked under Spec *)

CreatePcs == {"awaitExists", "awaitFactors", "awaitSave", "created", "createFailed"}

Occurrences(seq, x) == Cardinality({ i \in DOMAIN seq : seq[i] = x })

SaveOrder ==
    /\ Occurrences(calls, "save") <= 1
    /\ Occurrences(calls, "save") = 1 =>
          /\ calls = <<"exists", "getEmissionFactors", "isValid",
                       "calculateEmission", "save">>
          /\ UserExists(activityData.userId)
          /\ isValid(act) = Bool(TRUE)
          /\ calculateEmissionError(act, emissionFactors) = NoMsg
          /\ act.carbonEmission = EmissionOf(act, emissionFactors)
    /\ (pc \in CreatePcs /\ ~UserExists(activityData.userId)) =>
          Occurrences(calls, "save") = 0

\* C4: in every execution of createActivity save is called at most once, and
\* only after exists returned true, the factors were fetched, isValid()
\* returned true and calculateEmission succeeded, in that order; the store
\* changes only when that save returns, so a call that fails before it leaves
\* the store unchanged.
C4_SaveOnceAfterAllChecks ==
    /\ []SaveOrder
    /\ [][db' # db => (pc = "awaitSave" /\ pc' = "created"
                        /\ Len(db') = Len(db) + 1
                        /\ SubSeq(db', 1, Len(db)) = db)]_vars

C4_Witness ==
    /\ pc = "createFailed"
    /\ activityData.userId = Str("ghost")
    /\ calls = <<"exists">>
    /\ Len(db) = 1

\* C5: a successful createActivity returns, and reports in its audit record,
\* an Activity carrying the id persistence assigned and the calculated
\* emission value * factor[type][unit], not null.
C5_ReturnsIdAndEmission ==
    pc = "created" =>
        /\ saved.id = db[Len(db)].id
        /\ saved.carbonEmission # Null
        /\ saved.carbonEmission = EmissionOf(act, emissionFactors)
        /\ audit = << <<"Activity created: ", saved.id.s, ", Emission: ",
                        Template(EmissionOf(act, emissionFactors)), " kg CO2">> >>

\* the message the failing step of createActivity raised
StepFailure ==
    LET step == calls[Len(calls)]
    IN  CASE step = "exists" ->
               \/ inner \in CollaboratorErrors
               \/ ~UserExists(activityData.userId) /\ inner = <<"User does not exist">>
          [] step = "getEmissionFactors" -> inner \in CollaboratorErrors
          [] step = "isValid" ->
               ~Truthy(isValid(act)) /\ inner = <<"Invalid activity data">>
          [] step = "calculateEmission" ->
               /\ inner # NoMsg
               /\ inner = calculateEmissionError(act, emissionFactors)
          [] step = "save" ->
               \E m \in CollaboratorErrors : inner = <<"Activity save error: ">> \o m
          [] OTHER -> FALSE

\* C9: whenever a step of createActivity fails, the call raises exactly one
\* error, whose message is 'Activity creation error: ' followed by the
\* original error's message; no failure is swallowed (a call that returns an
\* activity raised nothing and saved it) and no step is called twice.
C9_OneWrappedCreationError ==
    /\ pc = "createFailed" =>
          /\ StepFailure
          /\ thrown = << <<"Activity creation error: ">> \o inner >>
          /\ \A c \in {"exists", "getEmissionFactors", "isValid",
                       "calculateEmission", "save"} : Occurrences(calls, c) <= 1
    /\ pc \in CreatePcs \ {"createFailed"} => thrown = <<>> /\ inner = NoMsg
    /\ pc = "created" => Len(db) > 0 /\ saved.id = db[Len(db)].id

C9_Witness ==
    /\ pc = "createFailed"
    /\ calls[Len(calls)] = "save"
    /\ thrown = << <<"Activity creation error: ", "Activity save error: ",
                     "connection lost">> >>

----------------------------------------------------------------------------
(* Claims about getUserFootprint *)

RECURSIVE SumEmission(_)
SumEmission(ms) ==
    IF ms = <<>> THEN 0 ELSE ms[1].carbonEmission.n + SumEmission(Tail(ms))

\* the documents persisted for the user within the inclusive bounds
Persisted(q) ==
    SelectSeq(db, LAMBDA m :
        /\ m.userId = q.userId
        /\ q.startDate # Undef => m.date.n >= q.startDate.n
        /\ q.endDate # Undef => m.date.n <= q.endDate.n)

\* C6: after successful createActivity calls, getUserFootprint returns
\* totalEmission equal to the sum of the carbonEmission persisted for the
\* user's activities within the inclusive bounds, and each byCategory[type]
\* the sum over those of that type.
C6_TotalIsPersistedSum ==
    pc = "footprintDone" =>
        /\ summary.totalEmission = Num(SumEmission(Persisted(query)))
        /\ \A t \in validTypes :
             summary.byCategory[t] =
                Num(SumEmission(SelectSeq(Persisted(query),
                                          LAMBDA m : m.type = Str(t))))

\* C8: getUserFootprint fails with a wrapped footprint error, returning no
\* summary, whenever a collaborator call fails or the averages returned have
\* an undefined total; it returns a summary only when both calls succeed and
\* averageEmissions.total is defined.
C8_FailsOnUndefinedTotal ==
    /\ pc = "footprintDone" =>
          /\ summary.ok
          /\ ~averageEmissions.nul
          /\ averageEmissions.total # Undef
    /\ pc = "footprintFailed" =>
          /\ ~summary.ok
          /\ thrown = << <<"Footprint calculation error: ">> \o inner >>

CategorySum(byCategory) ==
    NumAdd(NumAdd(NumAdd(byCategory["transportation"], byCategory["energy"]),
                  byCategory["food"]),
           byCategory["consumption"])

TotalIsCategorySum ==
    /\ validTypes \subseteq DOMAIN summary.byCategory
    /\ summary.totalEmission = CategorySum(summary.byCategory)

\* C7 as stated: for any sequence of activities returned (any types and
\* emission values), totalEmission is the sum of the four byCategory entries
\* and the four keys are present.
C7_TotalIsCategorySumAnyType ==
    pc = "footprintDone" => TotalIsCategorySum

\* C7, amended: the same for any sequence of activities whose types are all
\* among the four categories (emissions null or numbers), the empty sequence
\* included.
C7_TotalIsCategorySum ==
    (/\ pc = "footprintDone"
     /\ \A i \in DOMAIN found : found[i].type.s \in validTypes)
    => /\ TotalIsCategorySum
       /\ DOMAIN summary.byCategory = validTypes

C7_Witness ==
    /\ pc = "footprintDone"
    /\ Len(found) = 2
    /\ found[1].type = Str("food")
    /\ found[2].type = Str("energy")
    /\ summary.totalEmission = Num(1 + MaxEmission)
    /\ summary.byCategory["transportation"] = Num(0)

====
